---------------------------- MODULE Spec2Model ----------------------------
(***************************************************************************)
(* A model of notedown.py, the Sublime Text "Notedown" plugin: the index   *)
(* of note files with its modification-time cache (_find_notes), link      *)
(* resolution and note creation (NotedownOpenLinkCommand, _create_note),   *)
(* the rename flow with backlink reconciliation                            *)
(* (NotedownEventListener._reflect_title_in_filename, _update_backlinks)   *)
(* the linter (NotedownLintCommand) and the pasting of the back link       *)
(* (NotedownPasteBackLinkCommand).                                         *)
(*                                                                         *)
(* Strings.  A string of the program is modelled as the sequence of the    *)
(* segments between its occurrences of _TITLE_SEP ('~'): <<"a", " b">> is  *)
(* the string "a~ b".  Segments never hold the separator, so two strings   *)
(* are equal exactly when their sequences are.  str.strip and str.lower    *)
(* are tables over the segments the model uses.                            *)
(*                                                                         *)
(* Files.  A path is [dir, name, ext]; dir is the sequence of directory    *)
(* names below the filesystem root.  A file's content is the sequence of   *)
(* its [[...]] tokens and whether its bytes decode under the encoding the  *)
(* rename flow reads files with.  The heading of a note is read from the   *)
(* view when it is saved and written when a note is created; the model     *)
(* keeps it with the callback, not with the file.                          *)
(*                                                                         *)
(* Modification times.  The clock advances with every write.  mtime[d] is  *)
(* the time of the last write that added an entry to d, removed one from   *)
(* it or renamed one in it; a write of a file's content leaves it alone.   *)
(*                                                                         *)
(* Callbacks.  In Spec and the specifications that share its actions the  *)
(* host runs one callback at a time, each a single step.  A callback       *)
(* leaves in out what it was given, what it saw and what it answered;      *)
(* Return hands control back to the host.  SpecSteps follows the host's    *)
(* two threads through _find_notes statement by statement.                 *)
(***************************************************************************)
EXTENDS Naturals, Sequences, FiniteSets, TLC

VARIABLES
    files,          \* the filesystem: path -> content, for the files that exist
    mtime,          \* directory -> st_mtime
    clock,          \* the time: it passes with every write to the filesystem
    notes_cache,    \* _notes_cache: directory -> [mtime, notes]
    LAST_NOTE,      \* _LAST_NOTE: the name of the note last navigated from
    pc,             \* where the host's callback stands: idle, owing a lint, returned
    out             \* what the last callback was given, saw and answered

vars == <<files, mtime, clock, notes_cache, LAST_NOTE, pc, out>>

---------------------------------------------------------------------------
(* Bounds of the model *)

\* The clock is capped: nothing writes to the filesystem once it shows
\* MaxClock.
MaxClock == 1

---------------------------------------------------------------------------
(* Strings *)

\* str.strip() on one segment
Strip(s) == IF s = " b" THEN "b" ELSE s

\* a str.lower() that leaves every letter as it is
Lower_keeps_case(s) == s

\* str.lower() on one segment
Lower(s) ==
    CASE s = "A" -> "a"
      [] s = "README" -> "readme"
      [] OTHER -> s

\* str.lower() on a string
LowerName(n) == [i \in DOMAIN n |-> Lower(n[i])]

\* line 31
TITLE_SEP == "~"

\* line 25: the extensions _find_notes takes for notes
MARKDOWN_EXTENSIONS == {"md", "mdown", "markdown", "markdn"}

\* line 27
DEFAULT_EXTENSION == "md"

\* line 39
HOME_NAME == <<"README">>

\* The sentinel's basename.  notedown.py reads _HOME_FILE_BASE (line 502) and
\* never assigns it; the name and extension are the specification's README.md.
HOME_FILE_BASE == [name |-> <<"README">>, ext |-> "md"]

\* str.strip() on a string: the white space in front of its first segment
\* and behind its last is taken off (the segments of the model carry white
\* space in front only)
StripString(n) == IF n = <<>> THEN n ELSE [n EXCEPT ![1] = Strip(n[1])]

\* _titles (lines 602-603): the segments of name, each stripped.  No segment
\* is dropped: an empty segment yields the empty title.
titles(name) == [i \in DOMAIN name |-> <<Strip(name[i])>>]

---------------------------------------------------------------------------
(* Paths *)

FsRoot == <<>>
HomeDir == <<"h">>
SubDir == <<"h", "s">>
Dirs == {HomeDir, SubDir}

\* The value of a home directory that was not found (Python's None).
NoneDir == <<"None">>

\* os.path.dirname of a directory: the root is its own parent
dirname(d) == IF d = FsRoot THEN FsRoot ELSE SubSeq(d, 1, Len(d) - 1)

Path(d, n, e) == [dir |-> d, name |-> n, ext |-> e]

\* os.path.isfile
isfile(fs, p) == p \in DOMAIN fs

\* _find_home_dir (lines 501-507): the nearest directory, from curr_dir
\* upwards, that holds the sentinel; None when no directory up to the root does
RECURSIVE find_home_dir(_, _)
find_home_dir(fs, curr_dir) ==
    IF isfile(fs, Path(curr_dir, HOME_FILE_BASE.name, HOME_FILE_BASE.ext))
    THEN curr_dir
    ELSE IF dirname(curr_dir) # curr_dir
         THEN find_home_dir(fs, dirname(curr_dir))
         ELSE NoneDir


---------------------------------------------------------------------------
(* The notes of the model *)

\* The value of a view's first line that is no first-level heading
\* (_note_title returns None).
NoTitle == <<"None">>

\* os.listdir's order of a directory's entries, which os.walk follows: some
\* fixed order of the basenames, the same on every walk.
Listing ==
    << [name |-> <<"README">>, ext |-> "md"],
       [name |-> <<"a", "A">>, ext |-> "md"],
       [name |-> <<"a">>, ext |-> "md"],
       [name |-> <<"b">>, ext |-> "txt"],
       [name |-> <<"A">>, ext |-> "md"],
       [name |-> <<"a", " b">>, ext |-> "md"],
       [name |-> <<"b">>, ext |-> "md"],
       [name |-> <<" b">>, ext |-> "md"],
       [name |-> <<"a", "">>, ext |-> "md"],
       [name |-> <<"c">>, ext |-> "md"] >>

\* One [[...]] token of a file: its inner text, and whether it lies in a
\* raw (code) scope of the Markdown syntax.
Link(n) == [name |-> n, raw |-> FALSE]
RawLink(n) == [name |-> n, raw |-> TRUE]

\* A file that decodes, with its tokens in the order of the text.
Note(ls) == [links |-> ls, decodable |-> TRUE]

\* A file whose bytes do not decode under the encoding of the rename flow.
Undecodable == [links |-> <<>>, decodable |-> FALSE]

---------------------------------------------------------------------------
(* Python values *)

\* an int, and None, as a function's return value
Int(n) == [none |-> FALSE, val |-> n]
PyNone == [none |-> TRUE, val |-> 0]

EmptyMap == [k \in {} |-> <<>>]

\* f with x mapped to v, x added to its domain when it is not there
Put(f, x, v) == [y \in DOMAIN f \cup {x} |-> IF y = x THEN v ELSE f[y]]

\* f without x
Del(f, x) == [y \in DOMAIN f \ {x} |-> f[y]]

---------------------------------------------------------------------------
(* _find_notes (lines 519-545) *)

\* os.walk(directory), top-down: the directories at and below directory,
\* a directory before its subdirectories
WalkDirs(directory) ==
    IF directory = HomeDir THEN <<HomeDir, SubDir>>
    ELSE IF directory = SubDir THEN <<SubDir>>
    ELSE <<>>

\* the files of directory dir_ in listing order (line 532)
FilesOf(fs, dir_) ==
    LET here == SelectSeq(Listing,
                    LAMBDA b : Path(dir_, b.name, b.ext) \in DOMAIN fs)
    IN  [i \in DOMAIN here |-> Path(dir_, here[i].name, here[i].ext)]

\* lines 537-542: the (title, file) pairs of one file appended to notes
RECURSIVE AddTitles(_, _, _, _)
AddTitles(notes, ts, file_, i) ==
    IF i > Len(ts) THEN notes
    ELSE LET title == ts[i]
             lower_title == LowerName(title)
             pair == <<title, file_>>
         IN  AddTitles(IF lower_title \in DOMAIN notes
                       THEN [notes EXCEPT ![lower_title] = Append(@, pair)]
                       ELSE Put(notes, lower_title, <<pair>>),
                       ts, file_, i + 1)

\* lines 532-542: the files of one directory added to notes
RECURSIVE AddFiles(_, _, _)
AddFiles(notes, fileseq, i) ==
    IF i > Len(fileseq) THEN notes
    ELSE LET file_ == fileseq[i]
         IN  AddFiles(IF file_.ext \notin MARKDOWN_EXTENSIONS
                      THEN notes
                      ELSE AddTitles(notes, titles(file_.name), file_, 1),
                      fileseq, i + 1)

\* lines 530-542: the walk
RECURSIVE WalkFrom(_, _, _, _)
WalkFrom(notes, fs, dirseq, i) ==
    IF i > Len(dirseq) THEN notes
    ELSE WalkFrom(AddFiles(notes, FilesOf(fs, dirseq[i]), 1), fs, dirseq, i + 1)

Walk(fs, directory) == WalkFrom(EmptyMap, fs, WalkDirs(directory), 1)

\* line 527 with the comparison of the times turned round: a record is
\* used when its time is NOT the directory's
cache_valid_inverted(mt, cache, directory) ==
    directory \in DOMAIN cache /\ cache[directory].mtime # mt[directory]

\* line 527 never true: no record is used
cache_valid_never(mt, cache, directory) == FALSE

\* line 527 without the comparison of the times: any record is used
cache_valid_any_record(mt, cache, directory) ==
    directory \in DOMAIN cache

\* line 527: whether the cache holds a record of directory with the
\* directory's modification time
cache_valid(mt, cache, directory) ==
    directory \in DOMAIN cache /\ cache[directory].mtime = mt[directory]

\* _find_notes(directory) with the cache as it stands: the mapping returned,
\* the cache afterwards, and whether the tree was walked
find_notes(fs, mt, cache, directory) ==
    IF cache_valid(mt, cache, directory)
    THEN [notes |-> cache[directory].notes, cache |-> cache, walked |-> FALSE]
    ELSE LET notes == Walk(fs, directory)
         IN  [notes |-> notes,
              cache |-> Put(cache, directory,
                            [mtime |-> mt[directory], notes |-> notes]),
              walked |-> TRUE]

\* _find_notes_for_view (lines 510-516): the directory whose index a view
\* in directory curr_dir is given
notes_dir_for_view(fs, curr_dir) ==
    LET home_dir == find_home_dir(fs, curr_dir)
    IN  IF home_dir # NoneDir THEN home_dir ELSE curr_dir

\* One call of _find_notes(directory), made with the tree fs, the
\* modification times mt and the cache as it stood: whether the cache held
\* a record of the directory (had) whose time was the directory's (hit), the
\* mapping of that record (prev), and what r, the call, answered and stored.
FnObs(fs, mt, cache, directory, r) ==
    LET had == directory \in DOMAIN cache
    IN  [dir |-> directory,
         had |-> had,
         hit |-> had /\ cache[directory].mtime = mt[directory],
         prev |-> IF had THEN cache[directory].notes ELSE EmptyMap,
         now |-> mt[directory],
         tree |-> fs,
         notes |-> r.notes,
         walked |-> r.walked,
         stored |-> r.cache[directory]]

---------------------------------------------------------------------------
(* The host *)

Idle == [at |-> "idle", view |-> Path(FsRoot, <<>>, ""), titled |-> FALSE]
Returned == [Idle EXCEPT !.at = "returned"]

\* The views the user may run a command in: the notes that are open.  A
\* view is a note's by its syntax (_viewing_a_note, lines 606-619), which the
\* editor gives the files with a Markdown extension.
Views == {p \in DOMAIN files :
            files[p].decodable /\ p.ext \in MARKDOWN_EXTENSIONS}

\* a write at the next tick of the clock that changes the entries of the
\* directories ds
Touch(mt, ds, t) == [d \in DOMAIN mt |-> IF d \in ds THEN t ELSE mt[d]]

\* The callback has returned: the host takes its answer.
Return ==
    /\ pc.at = "returned"
    /\ pc' = Idle
    /\ out' = [op |-> "none"]
    /\ UNCHANGED <<files, mtime, clock, notes_cache, LAST_NOTE>>

---------------------------------------------------------------------------
(* NotedownOpenLinkCommand (lines 92-154) and _create_note (lines 548-573) *)

\* The texts a user opens: the inner text of a link under the cursor, or a
\* selection.
Titles == { <<"a">>, <<"A">>, <<"a", "A">> }

\* lines 33-37: the text of a new note: a first line "# " followed by title
\* (heading is what follows the two characters "# "), then "[[back_title]]"
NOTE_TEMPLATE(title, back_title) ==
    [heading |-> title, links |-> <<Link(back_title)>>]

\* _note_title (lines 489-493) on a text whose first line is a first-level
\* heading: the line without its first two characters, stripped
note_title(text) == StripString(text.heading)

\* lines 555-560: the path of the note _create_note writes for title
create_path(title, view) == Path(view.dir, title, DEFAULT_EXTENSION)

\* lines 562-563: the first title of the view's file name
back_title_of(view) == titles(view.name)[1]

\* lines 565-567: the filesystem after open(filename, 'w') and the write of
\* the template; mode 'w' creates the file or truncates the one that is there
create_write(fs, title, view) ==
    Put(fs, create_path(title, view),
        Note(NOTE_TEMPLATE(title, back_title_of(view)).links))

\* lines 119-121: the files of the pairs the index holds under a key, in the
\* order of the pairs
filenames_of(notes, key) == [i \in DOMAIN notes[key] |-> notes[key][i][2]]

\* lines 119-134: how _open_note treats title in the index notes
resolution(notes, title) ==
    IF LowerName(title) \notin DOMAIN notes THEN "NotFound"
    ELSE IF Len(filenames_of(notes, LowerName(title))) > 1 THEN "Ambiguous"
    ELSE "Unique"

\* NotedownOpenLinkCommand.run for one selection (lines 97-134): the index
\* of the view's notes is found, then title is opened in it.  On a KeyError
\* _create_note asks "Create a new note?" and writes the file, which may
\* raise IOError; with several files under the key the quick panel answers
\* with a candidate or with -1.
OpenLink(view, title) ==
    LET directory == notes_dir_for_view(files, view.dir)
        r == find_notes(files, mtime, notes_cache, directory)
        res == resolution(r.notes, title)
        filename == create_path(title, view)
        existed == filename \in DOMAIN files
        filenames == IF res = "NotFound" THEN <<>>
                     ELSE filenames_of(r.notes, LowerName(title))
        base == [op |-> "open_link", view |-> view, title |-> title,
                 fn |-> <<FnObs(files, mtime, notes_cache, directory, r)>>,
                 before |-> files,
                 resolution |-> res, candidates |-> filenames,
                 path |-> filename, existed |-> existed,
                 text |-> NOTE_TEMPLATE(title, back_title_of(view)),
                 last_before |-> LAST_NOTE]
    IN  /\ pc.at = "idle"
        /\ view \in Views
        /\ notes_cache' = r.cache
        /\ pc' = Returned
        \* lines 136-140, which the return of line 126 skips
        /\ LAST_NOTE' = IF res = "NotFound" THEN LAST_NOTE ELSE view.name
        /\ CASE res = "NotFound" ->
                  \* KeyError (line 122): _create_note
                  \/ /\ out' = base @@ [created |-> "cancelled", opened |-> <<>>]
                     /\ UNCHANGED <<files, mtime, clock>>
                  \/ /\ out' = base @@ [created |-> "IOError", opened |-> <<>>]
                     /\ UNCHANGED <<files, mtime, clock>>
                  \/ /\ clock < MaxClock
                     /\ clock' = clock + 1
                     /\ files' = create_write(files, title, view)
                     /\ mtime' = IF existed THEN mtime
                                 ELSE Touch(mtime, {filename.dir}, clock')
                     /\ out' = base @@ [created |-> "written",
                                        opened |-> <<filename>>]
             [] res = "Ambiguous" ->
                  \* the quick panel (lines 128-132)
                  /\ UNCHANGED <<files, mtime, clock>>
                  /\ \E index \in 0 .. Len(filenames) :
                       out' = base @@
                                [created |-> "no",
                                 opened |-> IF index = 0 THEN <<>>
                                            ELSE <<filenames[index]>>]
             [] OTHER ->
                  \* line 134
                  /\ UNCHANGED <<files, mtime, clock>>
                  /\ out' = base @@ [created |-> "no",
                                     opened |-> <<filenames[Len(filenames)]>>]

---------------------------------------------------------------------------
(* NotedownPasteLinkCommand (lines 69-77), NotedownPasteBackLinkCommand    *)
(* (lines 86-89)                                                           *)

\* line 72: the token '[[{}]]'.format(note)
paste_link(note) == Link(note)

\* NotedownPasteBackLinkCommand.run: the token of _LAST_NOTE is put at the
\* selections of the view's buffer; no file, record or global is written.
PasteBackLink(view) ==
    /\ pc.at = "idle"
    /\ view \in Views
    /\ out' = [op |-> "paste_back_link", view |-> view,
               note |-> LAST_NOTE, link |-> paste_link(LAST_NOTE)]
    /\ pc' = Returned
    /\ UNCHANGED <<files, mtime, clock, notes_cache, LAST_NOTE>>

---------------------------------------------------------------------------
(* NotedownEventListener (lines 373-481): the rename flow *)

\* The headings a note is saved with.
Headings == { <<"A">>, <<"b">>, <<"a", " b">> }

Range(s) == {s[i] : i \in DOMAIN s}

\* line 448: the titles of old_name that are no titles of new_name
removed_titles(old_name, new_name) ==
    Range(titles(old_name)) \ Range(titles(new_name))

\* lines 454-455: whether the pattern, the removed titles as alternatives
\* between "[[" and "]]" under re.IGNORECASE, matches the token
pattern_matches(removed, tok) ==
    \E r \in removed : Len(tok.name) = 1 /\ Lower(tok.name[1]) = Lower(r[1])

\* line 456: the replacement, a link to the first title of new_name
repl(new_name, tok) == [tok EXCEPT !.name = titles(new_name)[1]]

\* line 468: pattern.subn(repl, text), on the tokens of a file
subn(removed, new_name, links) ==
    [text |-> [i \in DOMAIN links |->
                  IF pattern_matches(removed, links[i])
                  THEN repl(new_name, links[i]) ELSE links[i]],
     count |-> Cardinality({i \in DOMAIN links :
                               pattern_matches(removed, links[i])})]

\* lines 461-463: the files of the index
index_files(notes) ==
    UNION {Range(filenames_of(notes, k)) : k \in DOMAIN notes}

\* lines 473-479 without the test of line 473: every file read is written
written_files_all(fs, todo, removed, new_name) == todo

\* lines 473-479: the files of todo the loop opens for writing, those in
\* which the pattern matched
written_files(fs, todo, removed, new_name) ==
    {p \in todo : subn(removed, new_name, fs[p].links).count > 0}

\* lines 473-479: the files of todo rewritten, those in which the pattern
\* matched
rewrite(fs, todo, removed, new_name) ==
    [p \in DOMAIN fs |->
        IF p \in todo /\ subn(removed, new_name, fs[p].links).count > 0
        THEN [fs[p] EXCEPT !.links = subn(removed, new_name, @).text]
        ELSE fs[p]]

\* line 475: the files of todo counted as updated
count_updated(fs, todo, removed, new_name) ==
    Cardinality({p \in todo : subn(removed, new_name, fs[p].links).count > 0})

\* _update_backlinks (lines 437-481): what a call may do and answer.  The
\* files are read in the order a Python set yields them, so with a file that
\* does not decode among them (UnicodeDecodeError, which the except clause
\* for UnicodeEncodeError at line 469 does not catch) any of the others may
\* have been rewritten before it is met.  With no home directory the call of
\* _find_notes raises TypeError at os.stat(None), line 527.
update_backlinks(fs, mt, cache, old_name, new_name, notes_dir) ==
    LET removed == removed_titles(old_name, new_name)
        base == [removed |-> removed, files |-> fs, cache |-> cache,
                 fn |-> <<>>, raised |-> "no", updated |-> PyNone,
                 wrote |-> {}]
    IN  IF removed = {}
        THEN {base}
        ELSE IF notes_dir = NoneDir
        THEN {[base EXCEPT !.raised = "TypeError"]}
        ELSE LET r == find_notes(fs, mt, cache, notes_dir)
                 filenames == index_files(r.notes)
                 bad == {p \in filenames : ~fs[p].decodable}
                 seen == [base EXCEPT
                            !.cache = r.cache,
                            !.fn = <<FnObs(fs, mt, cache, notes_dir, r)>>]
             IN  IF bad = {}
                 THEN {[seen EXCEPT
                          !.files = rewrite(fs, filenames, removed, new_name),
                          !.wrote = written_files(fs, filenames, removed,
                                                  new_name),
                          !.updated = Int(count_updated(fs, filenames,
                                                        removed, new_name))]}
                 ELSE {[seen EXCEPT
                          !.files = rewrite(fs, todo, removed, new_name),
                          !.wrote = written_files(fs, todo, removed, new_name),
                          !.raised = "UnicodeDecodeError"] :
                       todo \in SUBSET (filenames \ bad)}

\* lines 401-403: the path a note is renamed to
new_filename_of(view, new_name) == Path(view.dir, new_name, view.ext)

\* line 414: the filesystem after os.rename(old_filename, new_filename)
\* succeeded; a file at new_filename is replaced
os_rename(fs, old_filename, new_filename) ==
    Put(Del(fs, old_filename), new_filename, fs[old_filename])

\* lines 426-429: the cache after the home directory's record is deleted
drop_record(cache, home_dir) ==
    IF home_dir \in DOMAIN cache THEN Del(cache, home_dir) ELSE cache

\* lines 417-420 with the whole cache thrown away on the error
on_rename_error_clears(cache) == [cache |-> EmptyMap, renamed |-> "False"]

\* lines 417-420: os.rename raised OSError; the error is shown and the flow
\* returns False with the cache as it was
on_rename_error(cache) == [cache |-> cache, renamed |-> "False"]

\* on_post_save_async (lines 382-388) up to the lint it ends with:
\* _reflect_title_in_filename (lines 390-435) for a view saved with the
\* heading new_name.  The user may cancel the dialog, os.rename may raise
\* OSError, and with the file renamed the backlinks are updated.
PostSave(view, new_name) ==
    LET old_name == view.name
        new_filename == new_filename_of(view, new_name)
        base == [op |-> "post_save", view |-> view, new_name |-> new_name,
                 before |-> files, cache_before |-> notes_cache,
                 asked |-> FALSE, rename |-> "none", renamed |-> "False",
                 reconciled |-> FALSE, home_dir |-> NoneDir, fn |-> <<>>,
                 removed |-> {}, raised |-> "no", updated |-> PyNone,
                 wrote |-> {},
                 after_rename |-> files]
        owing == [at |-> "lint", view |-> view, titled |-> new_name # NoTitle]
    IN  /\ pc.at = "idle"
        /\ view \in Views
        /\ UNCHANGED LAST_NOTE
        /\ IF new_name = NoTitle \/ new_name = old_name
           THEN \* lines 393-399
                /\ out' = base
                /\ pc' = owing
                /\ UNCHANGED <<files, mtime, clock, notes_cache>>
           ELSE \/ \* line 407: the dialog is cancelled
                   /\ out' = [base EXCEPT !.asked = TRUE]
                   /\ pc' = owing
                   /\ UNCHANGED <<files, mtime, clock, notes_cache>>
                \/ \* lines 417-420: os.rename raised OSError
                   /\ out' = [base EXCEPT !.asked = TRUE, !.rename = "failed",
                                !.renamed = on_rename_error(notes_cache).renamed]
                   /\ notes_cache' = on_rename_error(notes_cache).cache
                   /\ pc' = owing
                   /\ UNCHANGED <<files, mtime, clock>>
                \/ \* lines 414, 422-435
                   /\ clock < MaxClock
                   /\ clock' = clock + 1
                   /\ mtime' = Touch(mtime, {view.dir}, clock')
                   /\ LET fs1 == os_rename(files, view, new_filename)
                          home_dir == find_home_dir(fs1, view.dir)
                          cache1 == drop_record(notes_cache, home_dir)
                      IN  \E u \in update_backlinks(fs1, mtime', cache1,
                                        old_name, new_name, home_dir) :
                            /\ files' = u.files
                            /\ notes_cache' = u.cache
                            /\ out' = [base EXCEPT
                                 !.asked = TRUE, !.rename = "done",
                                 !.renamed = IF u.raised = "no" THEN "True"
                                             ELSE "raised",
                                 !.reconciled = TRUE,
                                 !.home_dir = home_dir,
                                 !.fn = u.fn,
                                 !.removed = u.removed,
                                 !.raised = u.raised,
                                 !.updated = u.updated,
                                 !.wrote = u.wrote,
                                 !.after_rename = fs1]
                   /\ pc' = Returned

---------------------------------------------------------------------------
(* NotedownLintCommand (lines 274-320), NotedownClearCacheCommand (323-333) *)

\* _find_link_regions (lines 576-591): the places of the view's [[...]]
\* tokens outside raw scopes, in the order of the text.  The answer is cached
\* per buffer under view.change_count(), which the host raises with every
\* change to the buffer: a cached answer is the answer for the buffer as it
\* is.
find_link_regions(links) ==
    SelectSeq([i \in DOMAIN links |-> i], LAMBDA i : ~links[i].raw)

\* _find_broken_links without the .lower() of line 295: the text is looked
\* up in notes as it is written
find_broken_links_no_lower(links, notes) ==
    LET regions == find_link_regions(links)
        broken == SelectSeq(regions,
                      LAMBDA i : links[i].name \notin DOMAIN notes)
    IN  [j \in DOMAIN broken |->
            [description |-> "Missing note file", region |-> broken[j],
             text |-> links[broken[j]].name]]

\* _find_broken_links (lines 290-296): an error for each region whose text,
\* in lower case, is no key of notes
find_broken_links(links, notes) ==
    LET regions == find_link_regions(links)
        broken == SelectSeq(regions,
                      LAMBDA i : LowerName(links[i].name) \notin DOMAIN notes)
    IN  [j \in DOMAIN broken |->
            [description |-> "Missing note file", region |-> broken[j],
             text |-> links[broken[j]].name]]

\* _check_note_title (lines 283-288)
check_note_title(titled) ==
    IF titled THEN <<>>
    ELSE <<[description |-> "Invalid note title", region |-> 0,
            text |-> NoTitle]>>

\* NotedownLintCommand.run (lines 276-281) in a view, with the cache as it
\* stands: the errors shown and the cache afterwards
lint(fs, mt, cache, view, titled) ==
    LET directory == notes_dir_for_view(fs, view.dir)
        r == find_notes(fs, mt, cache, directory)
    IN  [errors |-> check_note_title(titled)
                    \o find_broken_links(fs[view].links, r.notes),
         cache |-> r.cache,
         fn |-> <<FnObs(fs, mt, cache, directory, r)>>]

LintOut(op, view, titled, l) ==
    [op |-> op, view |-> view, titled |-> titled, fn |-> l.fn,
     errors |-> l.errors]

\* the command notedown_lint, run by the user
Lint(view, titled) ==
    LET l == lint(files, mtime, notes_cache, view, titled)
    IN  /\ pc.at = "idle"
        /\ view \in Views
        /\ notes_cache' = l.cache
        /\ out' = LintOut("lint", view, titled, l)
        /\ pc' = Returned
        /\ UNCHANGED <<files, mtime, clock, LAST_NOTE>>

\* line 388: the lint on_post_save_async runs when the file was not renamed
PostSaveLint ==
    LET l == lint(files, mtime, notes_cache, pc.view, pc.titled)
    IN  /\ pc.at = "lint"
        /\ notes_cache' = l.cache
        /\ out' = LintOut("post_save_lint", pc.view, pc.titled, l)
        /\ pc' = Returned
        /\ UNCHANGED <<files, mtime, clock, LAST_NOTE>>

\* NotedownClearCacheCommand.run (lines 325-333): the caches are emptied,
\* then the view is linted
ClearCache(view, titled) ==
    LET l == lint(files, mtime, EmptyMap, view, titled)
    IN  /\ pc.at = "idle"
        /\ view \in Views
        /\ notes_cache' = l.cache
        /\ out' = LintOut("clear_cache", view, titled, l)
        /\ pc' = Returned
        /\ UNCHANGED <<files, mtime, clock, LAST_NOTE>>

---------------------------------------------------------------------------
(* The filesystem outside the plugin *)

\* The files another program (or the user, outside the editor) may add.
ExtFiles ==
    { <<Path(HomeDir, <<"b">>, "txt"), Note(<<Link(<<"a">>)>>)>>,
      <<Path(SubDir, <<"b">>, "md"), Note(<<Link(<<"a">>)>>)>> }

\* a file appears in a directory
ExtAdd(p, c) ==
    /\ pc.at = "idle"
    /\ p \notin DOMAIN files
    /\ clock < MaxClock
    /\ clock' = clock + 1
    /\ files' = Put(files, p, c)
    /\ mtime' = Touch(mtime, {p.dir}, clock')
    /\ UNCHANGED <<notes_cache, LAST_NOTE, pc, out>>

\* a file is removed from a directory
ExtRemove(p) ==
    /\ pc.at = "idle"
    /\ p \in DOMAIN files
    /\ clock < MaxClock
    /\ clock' = clock + 1
    /\ files' = Del(files, p)
    /\ mtime' = Touch(mtime, {p.dir}, clock')
    /\ UNCHANGED <<notes_cache, LAST_NOTE, pc, out>>

---------------------------------------------------------------------------
(* The specification *)

\* The notes the editor starts with: a.md and b.md in the home directory,
\* with or without the sentinel README.md, and with none or one of: a note
\* A.md in the subdirectory, a note a~A.md, a file that does not decode.
\* Nothing is cached, every directory is as it was made.
InitFiles(readme, more) ==
    LET f0 == Put(Put(EmptyMap,
                  Path(HomeDir, <<"a">>, "md"), Note(<<>>)),
                  Path(HomeDir, <<"b">>, "md"),
                  Note(<< Link(<<"a">>), RawLink(<<"A">>),
                          Link(<<"a", " b">>) >>))
        f1 == IF readme
              THEN Put(f0, Path(HomeDir, <<"README">>, "md"),
                       Note(<<Link(<<"A">>)>>))
              ELSE f0
    IN  CASE more = "sub" ->
               Put(f1, Path(SubDir, <<"A">>, "md"), Note(<<Link(<<"b">>)>>))
          [] more = "multi" ->
               Put(f1, Path(HomeDir, <<"a", "A">>, "md"), Note(<<Link(<<"b">>)>>))
          [] more = "undecodable" ->
               Put(f1, Path(SubDir, <<"b">>, "md"), Undecodable)
          [] OTHER -> f1

\* The editor starts on one of the trees InitFiles(readme, more), with readme
\* from readmes and more from mores.
InitWith(readmes, mores) ==
    /\ \E readme \in readmes, more \in mores : files = InitFiles(readme, more)
    /\ mtime = [d \in Dirs |-> 0]
    /\ clock = 0
    /\ notes_cache = EmptyMap
    /\ LAST_NOTE = HOME_NAME
    /\ pc = Idle
    /\ out = [op |-> "none"]

Next ==
    \/ \E f \in ExtFiles : ExtAdd(f[1], f[2])
    \/ \E p \in DOMAIN files : ExtRemove(p)
    \/ \E view \in DOMAIN files, title \in Titles : OpenLink(view, title)
    \/ \E view \in DOMAIN files : PasteBackLink(view)
    \/ \E view \in DOMAIN files, new_name \in Headings \cup {NoTitle} :
         PostSave(view, new_name)
    \/ PostSaveLint
    \/ \E view \in DOMAIN files, titled \in BOOLEAN : Lint(view, titled)
    \/ \E view \in DOMAIN files, titled \in BOOLEAN : ClearCache(view, titled)
    \/ Return

\* The trees are shared out among four specifications, which differ in
\* nothing but the tree the editor starts on.

\* a.md and b.md alone, or with a file that does not decode
Init == InitWith(BOOLEAN, {"none", "undecodable"})

Spec == Init /\ [][Next]_vars

\* with the note a~A.md
InitMulti == InitWith(BOOLEAN, {"multi"})

SpecMulti == InitMulti /\ [][Next]_vars

\* with the sentinel and a note in the subdirectory
InitSub == InitWith({TRUE}, {"sub"})

SpecSub == InitSub /\ [][Next]_vars

\* with a note in the subdirectory and no sentinel
InitSubBare == InitWith({FALSE}, {"sub"})

SpecSubBare == InitSubBare /\ [][Next]_vars

\* A fifth specification, of a tree with names of other shapes: a note a~.md
\* whose name ends with the separator, and links whose text has white space
\* in front or names no note.
NamesFiles ==
    Put(Put(Put(Put(EmptyMap,
        Path(HomeDir, <<"README">>, "md"), Note(<<>>)),
        Path(HomeDir, <<"b">>, "md"),
        Note(<< Link(<<" b">>), Link(<<"c">>) >>)),
        Path(HomeDir, <<"a", "">>, "md"), Note(<<Link(<<"c">>)>>)),
        Path(SubDir, <<"A">>, "md"), Note(<<Link(<<"c">>)>>))

\* the texts a user opens there, and the heading a note is saved with
NamesTitles == { <<"c">>, <<" b">>, <<"b">> }
NamesHeadings == { <<"c">> }

InitNames ==
    /\ files = NamesFiles
    /\ mtime = [d \in Dirs |-> 0]
    /\ clock = 0
    /\ notes_cache = EmptyMap
    /\ LAST_NOTE = HOME_NAME
    /\ pc = Idle
    /\ out = [op |-> "none"]

NextNames ==
    \/ \E view \in DOMAIN files, title \in NamesTitles : OpenLink(view, title)
    \/ \E view \in DOMAIN files, new_name \in NamesHeadings :
         PostSave(view, new_name)
    \/ PostSaveLint
    \/ \E view \in DOMAIN files : ClearCache(view, TRUE)
    \/ Return

SpecNames == InitNames /\ [][NextNames]_vars

---------------------------------------------------------------------------
(* The threads of the host *)

\* The host runs a command on its main thread and the handler of
\* on_post_save_async (line 382) on its second, the "async" thread.  The
\* specification SpecSteps follows the two through _find_notes statement by
\* statement, while other programs add files to the tree.  There pc[t] is
\* where thread t stands and out[t] holds the local variables of its callback.
Threads == {"main", "async"}

NoLocals ==
    [view |-> Path(FsRoot, <<>>, ""), new_name |-> NoTitle, dir |-> NoneDir,
     notes |-> EmptyMap, walked |-> FALSE, walk_time |-> 0, stored_time |-> 0]

At(t, where) == pc[t].at = where

Goto(t, where) == pc' = [pc EXCEPT ![t] = [at |-> where]]

\* NotedownLintCommand.run, line 279: _find_notes_for_view is entered
LintBegin(view) ==
    /\ At("main", "idle")
    /\ view \in Views
    /\ Goto("main", "check")
    /\ out' = [out EXCEPT !["main"] =
                 [NoLocals EXCEPT !.view = view,
                                  !.dir = notes_dir_for_view(files, view.dir)]]
    /\ UNCHANGED <<files, mtime, clock, notes_cache, LAST_NOTE>>

\* lines 526-528: the record is read and the directory's time compared
FnCheck(t) ==
    /\ At(t, "check")
    /\ IF cache_valid(mtime, notes_cache, out[t].dir)
       THEN /\ Goto(t, "found")
            /\ out' = [out EXCEPT ![t].notes = notes_cache[out[t].dir].notes]
       ELSE /\ Goto(t, "walk")
            /\ out' = out
    /\ UNCHANGED <<files, mtime, clock, notes_cache, LAST_NOTE>>

\* lines 530-542: the tree is walked
FnWalk(t) ==
    /\ At(t, "walk")
    /\ Goto(t, "store")
    /\ out' = [out EXCEPT ![t].notes = Walk(files, out[t].dir),
                          ![t].walked = TRUE,
                          ![t].walk_time = mtime[out[t].dir]]
    /\ UNCHANGED <<files, mtime, clock, notes_cache, LAST_NOTE>>

\* line 544: the directory's time is read again and stored with the notes
FnStore(t) ==
    /\ At(t, "store")
    /\ Goto(t, "found")
    /\ notes_cache' = Put(notes_cache, out[t].dir,
                          [mtime |-> mtime[out[t].dir], notes |-> out[t].notes])
    /\ out' = [out EXCEPT ![t].stored_time = mtime[out[t].dir]]
    /\ UNCHANGED <<files, mtime, clock, LAST_NOTE>>

\* lines 280-281: the errors are shown and the command returns
LintEnd ==
    /\ At("main", "found")
    /\ Goto("main", "idle")
    /\ out' = [out EXCEPT !["main"] = NoLocals]
    /\ UNCHANGED <<files, mtime, clock, notes_cache, LAST_NOTE>>

\* lines 392-414: a note was saved with a new heading, the user confirms
\* and os.rename succeeds
SaveRename(view, new_name) ==
    /\ At("async", "idle")
    /\ view \in Views
    /\ new_name # view.name
    /\ clock < MaxClock
    /\ clock' = clock + 1
    /\ files' = os_rename(files, view, new_filename_of(view, new_name))
    /\ mtime' = Touch(mtime, {view.dir}, clock')
    /\ Goto("async", "delete")
    /\ out' = [out EXCEPT !["async"] =
                 [NoLocals EXCEPT !.view = view, !.new_name = new_name,
                                  !.dir = find_home_dir(files', view.dir)]]
    /\ UNCHANGED <<notes_cache, LAST_NOTE>>

\* lines 426-429, then _update_backlinks up to its call of _find_notes
\* (lines 448-462): with nothing removed it returns, with no home directory
\* _find_notes raises TypeError
SaveDelete ==
    /\ At("async", "delete")
    /\ notes_cache' = drop_record(notes_cache, out["async"].dir)
    /\ IF \/ removed_titles(out["async"].view.name, out["async"].new_name) = {}
          \/ out["async"].dir = NoneDir
       THEN /\ Goto("async", "idle")
            /\ out' = [out EXCEPT !["async"] = NoLocals]
       ELSE /\ Goto("async", "check")
            /\ out' = out
    /\ UNCHANGED <<files, mtime, clock, LAST_NOTE>>

\* lines 465-481: the files of the index are read and rewritten; a file of
\* the index that is no longer there raises FileNotFoundError at line 466,
\* after any of the others have been rewritten
SaveRewrite ==
    /\ At("async", "found")
    /\ LET removed == removed_titles(out["async"].view.name,
                                     out["async"].new_name)
           filenames == index_files(out["async"].notes)
           there == filenames \cap DOMAIN files
       IN  \E todo \in SUBSET there :
              /\ filenames \subseteq DOMAIN files => todo = there
              /\ files' = rewrite(files, todo, removed, out["async"].new_name)
    /\ Goto("async", "idle")
    /\ out' = [out EXCEPT !["async"] = NoLocals]
    /\ UNCHANGED <<mtime, clock, notes_cache, LAST_NOTE>>

\* another program adds a file, whatever the threads are doing
ExtAddAnytime(p, c) ==
    /\ p \notin DOMAIN files
    /\ clock < MaxClock
    /\ clock' = clock + 1
    /\ files' = Put(files, p, c)
    /\ mtime' = Touch(mtime, {p.dir}, clock')
    /\ UNCHANGED <<notes_cache, LAST_NOTE, pc, out>>

InitSteps ==
    /\ \E readme \in BOOLEAN : files = InitFiles(readme, "none")
    /\ mtime = [d \in Dirs |-> 0]
    /\ clock = 0
    /\ notes_cache = EmptyMap
    /\ LAST_NOTE = HOME_NAME
    /\ pc = [t \in Threads |-> [at |-> "idle"]]
    /\ out = [t \in Threads |-> NoLocals]

NextSteps ==
    \/ \E view \in DOMAIN files : LintBegin(view)
    \/ \E t \in Threads : FnCheck(t)
    \/ \E t \in Threads : FnWalk(t)
    \/ \E t \in Threads : FnStore(t)
    \/ LintEnd
    \/ \E view \in DOMAIN files, new_name \in Headings : SaveRename(view, new_name)
    \/ SaveDelete
    \/ SaveRewrite
    \/ \E f \in ExtFiles : ExtAddAnytime(f[1], f[2])

SpecSteps == InitSteps /\ [][NextSteps]_vars

---------------------------------------------------------------------------
(* Properties *)

\* the callbacks that leave in out.fn what they saw of _find_notes
Queried == out.op \in {"open_link", "lint", "post_save_lint", "clear_cache",
                       "post_save"}

\* the lower-case keys of a name's titles
KeysOf(name) == {LowerName(t) : t \in Range(titles(name))}

\* the home root of a note in directory curr_dir, as the specification has
\* it: the nearest directory with the sentinel, else the note's directory
HomeRoot(fs, curr_dir) ==
    IF find_home_dir(fs, curr_dir) # NoneDir THEN find_home_dir(fs, curr_dir)
    ELSE curr_dir

\* the files a full walk of root finds in the tree fs
Reachable(fs, root) == index_files(Walk(fs, root))

\* the rename flow renamed the file
Renamed == out.op = "post_save" /\ out.rename = "done"

\* C1: after a rename that drops an alias, in every note file reachable from
\* the home root's index every token matching a dropped alias is replaced by
\* a link to the first alias of the new name, and the count returned is the
\* number of files that held such a token.
C1_RenameReconciles ==
    (Renamed /\ removed_titles(out.view.name, out.new_name) # {}) =>
       LET fs1 == out.after_rename
           removed == removed_titles(out.view.name, out.new_name)
           cand == {p \in Reachable(fs1, HomeRoot(fs1, out.view.dir)) :
                      fs1[p].decodable}
           held == {p \in cand : \E i \in DOMAIN fs1[p].links :
                                  pattern_matches(removed, fs1[p].links[i])}
       IN  /\ \A p \in cand : \A i \in DOMAIN fs1[p].links :
                files[p].links[i] =
                   IF pattern_matches(removed, fs1[p].links[i])
                   THEN [fs1[p].links[i] EXCEPT
                           !.name = titles(out.new_name)[1]]
                   ELSE fs1[p].links[i]
           /\ out.updated = Int(Cardinality(held))

\* C2: when no comparison key of the old name's aliases is missing from the
\* new name's, reconciliation (given a home root) ends without an error,
\* rewrites no file and reports 0 updated files.
C2_NothingDropped ==
    (/\ Renamed
     /\ out.home_dir # NoneDir
     /\ KeysOf(out.view.name) \ KeysOf(out.new_name) = {}) =>
       /\ out.raised = "no"
       /\ files = out.after_rename
       /\ out.updated = Int(0)

\* C3: a call of _find_notes for a directory whose modification time is the
\* one its cache record holds answers with the record's mapping and does not
\* walk the tree.
C3_CacheHit ==
    Queried =>
       \A i \in DOMAIN out.fn :
          out.fn[i].hit =>
             /\ ~out.fn[i].walked
             /\ out.fn[i].notes = out.fn[i].prev
             /\ out.fn[i].stored.notes = out.fn[i].prev

C3_Witness ==
    /\ out.op = "lint"
    /\ out.fn[1].hit
    /\ DOMAIN out.fn[1].notes # {}

\* the (title, file) pairs a mapping holds for the files directly in d
DirectPairs(notes, d) ==
    UNION {{pr \in Range(notes[k]) : pr[2].dir = d} : k \in DOMAIN notes}

C5_RenameInvalidates ==
    (Renamed /\ out.renamed = "True") =>
       LET root == HomeRoot(files, out.view.dir)
           new_path == new_filename_of(out.view, out.new_name)
           q == find_notes(files, mtime, notes_cache, root).notes
       IN  /\ ~(/\ root \in DOMAIN notes_cache
                /\ root \in DOMAIN out.cache_before
                /\ notes_cache[root] = out.cache_before[root])
           /\ \A k \in KeysOf(out.new_name) :
                 /\ k \in DOMAIN q
                 /\ \E pr \in Range(q[k]) : pr[2] = new_path
           /\ \A k \in DOMAIN q : \A pr \in Range(q[k]) : pr[2] # out.view

\* C6: when os.rename fails the flow stops there: no file is written, the
\* index is not queried, the cache is as it was, and the flow answers that
\* nothing was renamed.
C6_RenameFailureAborts ==
    (out.op = "post_save" /\ out.rename = "failed") =>
       /\ files = out.before
       /\ notes_cache = out.cache_before
       /\ out.renamed = "False"
       /\ ~out.reconciled
       /\ out.fn = <<>>

C6_Witness ==
    /\ out.op = "post_save"
    /\ out.rename = "failed"
    /\ HomeRoot(files, out.view.dir) \in DOMAIN notes_cache
    /\ \E p \in DOMAIN files : \E i \in DOMAIN files[p].links :
          pattern_matches(removed_titles(out.view.name, out.new_name),
                          files[p].links[i])

\* C7: in reconciliation a candidate file that does not decode is skipped and
\* left as it is; every other candidate is still processed and the count is
\* returned.
C7_DecodeErrorSkipped ==
    (/\ Renamed
     /\ out.fn # <<>>
     /\ \E p \in index_files(out.fn[1].notes) : ~out.after_rename[p].decodable)
    =>
       LET fs1 == out.after_rename
           removed == removed_titles(out.view.name, out.new_name)
       IN  /\ out.raised = "no"
           /\ ~out.updated.none
           /\ \A p \in index_files(out.fn[1].notes) :
                 files[p] = IF fs1[p].decodable
                            THEN [fs1[p] EXCEPT !.links =
                                    subn(removed, out.new_name, @).text]
                            ELSE fs1[p]

\* the files a mapping holds under a key
FilesUnder(notes, key) == {pr[2] : pr \in Range(notes[key])}

\* C8: a name resolves by its lower-case key: NotFound when the index has no
\* entry, Unique (and the file is opened) when it has exactly one pair,
\* Ambiguous only when the key maps to more than one distinct file, the
\* candidates then in the order of the index.
C8_Resolution ==
    out.op = "open_link" =>
       LET notes == out.fn[1].notes
           key == LowerName(out.title)
       IN  /\ key \notin DOMAIN notes => out.resolution = "NotFound"
           /\ (key \in DOMAIN notes /\ Len(notes[key]) = 1) =>
                 /\ out.resolution = "Unique"
                 /\ out.opened = <<notes[key][1][2]>>
           /\ out.resolution = "Ambiguous" =>
                 /\ Cardinality(FilesUnder(notes, key)) > 1
                 /\ out.candidates = [i \in DOMAIN notes[key] |->
                                         notes[key][i][2]]

\* C9: creation never overwrites: with a file already at the path of the
\* requested title, creation fails with an error and the file's content is
\* as it was.
C9_CreateNeverOverwrites ==
    (out.op = "open_link" /\ out.resolution = "NotFound" /\ out.existed) =>
       /\ out.created \in {"cancelled", "IOError"}
       /\ files[out.path] = out.before[out.path]

\* the places of a view's link occurrences whose lower-case text is no key
Dangling(links, notes) ==
    {i \in DOMAIN links :
        ~links[i].raw /\ LowerName(links[i].name) \notin DOMAIN notes}

\* the dangling-link errors among the errors of a lint
MissingErrors(errors) ==
    SelectSeq(errors, LAMBDA e : e.description = "Missing note file")

\* C10: lint reports one dangling-link error for each link occurrence whose
\* lower-case text is no key of the index, in the order of the text, and
\* none for an occurrence whose key is in the index.
C10_LintDangling ==
    out.op \in {"lint", "post_save_lint", "clear_cache"} =>
       LET links == files[out.view].links
           errs == MissingErrors(out.errors)
           want == Dangling(links, out.fn[1].notes)
       IN  /\ {errs[j].region : j \in DOMAIN errs} = want
           /\ Len(errs) = Cardinality(want)
           /\ \A j, k \in DOMAIN errs :
                 j < k => errs[j].region < errs[k].region
           /\ \A j \in DOMAIN errs : errs[j].text = links[errs[j].region].name

C10_Witness ==
    /\ out.op = "lint"
    /\ Len(MissingErrors(out.errors)) >= 1
    /\ \E i \in DOMAIN files[out.view].links :
          /\ ~files[out.view].links[i].raw
          /\ i \notin Dangling(files[out.view].links, out.fn[1].notes)
          /\ \E j \in DOMAIN out.errors : out.errors[j].region > i

\* two segments that differ at most in the case of their letters
SameLetters(s, t) == s = t \/ {s, t} = {"a", "A"} \/ {s, t} = {"README", "readme"}

\* the note files a walk of directory meets in the tree fs
NoteFiles(fs, directory) ==
    {p \in DOMAIN fs : /\ p.ext \in MARKDOWN_EXTENSIONS
                       /\ p.dir \in Range(WalkDirs(directory))}

\* the places in notes[key] at which the pair (title, file_) stands
PairAt(notes, key, title, file_) ==
    IF key \notin DOMAIN notes THEN {}
    ELSE {i \in DOMAIN notes[key] : notes[key][i] = <<title, file_>>}

\* C11: an index built by a walk holds, for every note file and each segment
\* of its name, the pair (stripped segment, file), the pairs of one file in
\* the order of the segments; and a one-segment name is resolved to the files
\* that have it for an alias whatever the case of its letters.
C11_AliasIdentity ==
    /\ Queried =>
         \A i \in DOMAIN out.fn :
            out.fn[i].walked =>
               \A p \in NoteFiles(out.fn[i].tree, out.fn[i].dir) :
                  /\ \A j \in DOMAIN p.name :
                        \E k \in DOMAIN out.fn[i].notes :
                           /\ SameLetters(k[1], Strip(p.name[j]))
                           /\ PairAt(out.fn[i].notes, k,
                                     <<Strip(p.name[j])>>, p) # {}
                  /\ \A j1, j2 \in DOMAIN p.name :
                        \A k \in DOMAIN out.fn[i].notes :
                           (j1 < j2 /\ SameLetters(k[1], Strip(p.name[j1]))
                                    /\ SameLetters(k[1], Strip(p.name[j2]))) =>
                              \E x \in PairAt(out.fn[i].notes, k,
                                              <<Strip(p.name[j1])>>, p),
                                 y \in PairAt(out.fn[i].notes, k,
                                              <<Strip(p.name[j2])>>, p) : x < y
    /\ (out.op = "open_link" /\ Len(out.title) = 1 /\ out.fn[1].walked) =>
          Range(out.candidates) =
             {p \in NoteFiles(out.fn[1].tree, out.fn[1].dir) :
                 \E j \in DOMAIN p.name :
                    SameLetters(Strip(p.name[j]), out.title[1])}

\* a link "A" is opened where the notes are a.md, a~A.md and others: the
\* index is walked and the files of both cases are the candidates
C11_Witness ==
    /\ out.op = "open_link"
    /\ out.title = <<"A">>
    /\ out.fn[1].walked
    /\ \E p, q \in Range(out.candidates) :
          /\ Len(p.name) = 2 /\ p.name[1] = "a" /\ p.name[2] = "A"
          /\ q.name = <<"a">>

\* C12: the root the rename flow reconciles in is the root of the note's
\* index: the nearest directory, from the note's own upwards, that holds the
\* sentinel, and the note's own directory when none does.
C12_HomeRoot ==
    /\ Queried /\ out.op # "post_save" =>
          \A i \in DOMAIN out.fn :
             out.fn[i].dir = HomeRoot(out.fn[i].tree, out.view.dir)
    /\ (Renamed /\ out.reconciled) =>
          out.home_dir = HomeRoot(out.after_rename, out.view.dir)

\* the number of tokens of file p the pattern of a rename replaces
Replaced(fs, p) ==
    subn(removed_titles(out.view.name, out.new_name), out.new_name,
         fs[p].links).count

\* C15: a candidate file in which nothing is replaced is not written and is
\* as it was, and is not counted; the files written are files with a
\* replacement, and they are the files counted.
C15_ReconciliationFrame ==
    (Renamed /\ out.fn # <<>>) =>
       LET fs1 == out.after_rename
           cand == index_files(out.fn[1].notes)
       IN  /\ \A p \in cand :
                Replaced(fs1, p) = 0 => p \notin out.wrote /\ files[p] = fs1[p]
           /\ \A p \in out.wrote : p \in cand /\ Replaced(fs1, p) > 0
           /\ \A p \in DOMAIN fs1 \ out.wrote : files[p] = fs1[p]
           /\ out.raised = "no" =>
                out.updated = Int(Cardinality(out.wrote))

\* a rename that rewrote one candidate and left another alone
C15_Witness ==
    /\ Renamed
    /\ out.raised = "no"
    /\ out.fn # <<>>
    /\ \E p, q \in index_files(out.fn[1].notes) :
          /\ Replaced(out.after_rename, p) = 0
          /\ Len(out.after_rename[p].links) > 0
          /\ q \in out.wrote
          /\ files[q] # out.after_rename[q]

\* C16: the remembered origin is the note navigated from exactly when the
\* navigation opened a note (found, chosen or created), and is as it was
\* when none was opened.
C16_BacklinkMemory ==
    out.op = "open_link" =>
       LAST_NOTE = IF out.opened # <<>> THEN out.view.name
                   ELSE out.last_before

\* whether, when the callback began, the table held a record of the
\* directory of its i-th query with the time the directory has at the query
StoodBefore(i) ==
    IF out.op = "post_save"
    THEN /\ out.fn[i].dir \in DOMAIN out.cache_before
         /\ out.cache_before[out.fn[i].dir].mtime = out.fn[i].now
    ELSE out.fn[i].hit

C13_CreationRoundTrip ==
    (out.op = "open_link" /\ out.created = "written") =>
       /\ files[out.path] = Note(out.text.links)
       /\ note_title(out.text) = out.title
       /\ Len(find_link_regions(files[out.path].links)) = 1
       /\ files[out.path].links[1].name \in Range(titles(out.view.name))

\* C14: a name is split into its segments in order, each stripped, the empty
\* ones dropped: no key of an index and no title removed by a rename is the
\* empty string.
C14_NameDecomposition ==
    /\ Queried => \A i \in DOMAIN out.fn : <<"">> \notin DOMAIN out.fn[i].notes
    /\ out.op = "post_save" => <<"">> \notin out.removed

\* C20: after a note was created for a title from a view, the next
\* resolution of the title from that view finds the created file alone.
C20_CreateThenResolve ==
    (out.op = "open_link" /\ out.created = "written") =>
       LET directory == notes_dir_for_view(files, out.view.dir)
           q == find_notes(files, mtime, notes_cache, directory).notes
       IN  /\ resolution(q, out.title) = "Unique"
           /\ filenames_of(q, LowerName(out.title)) = <<out.path>>

\* thread t has read the table for its query and has not yet written it
\* back
Rebuilding(t) == pc[t].at \in {"walk", "store"}

\* thread t is between its first and its last access to the table
InTable(t) == pc[t].at \in {"delete", "check", "walk", "store"}

\* C18: the callbacks do not interleave their accesses to the table: while
\* one is rebuilding a record no other is between its first and its last
\* access to the table.
C18_OneThread ==
    \A t, u \in Threads : (t # u /\ Rebuilding(t)) => ~InTable(u)

\* C19: the time stored with a record is the directory's time as it was when
\* the walk read the tree, so a record with the directory's time is never
\* wrong about the entries directly inside the directory.
C19_RecordTime ==
    /\ \A t \in Threads :
          (pc[t].at = "found" /\ out[t].walked) =>
             out[t].stored_time = out[t].walk_time
    /\ \A d \in DOMAIN notes_cache :
          notes_cache[d].mtime = mtime[d] =>
             DirectPairs(notes_cache[d].notes, d)
                = DirectPairs(Walk(files, d), d)

\* C21: a rename leaves every other file of the tree in its place with the
\* content it had: right after os.rename the files other than the renamed
\* one are the files that were there, unchanged.
C21_RenameKeepsOthers ==
    Renamed =>
       \A p \in DOMAIN out.before \ {out.view} :
          /\ p \in DOMAIN out.after_rename
          /\ out.after_rename[p] = out.before[p]

\* the files named by the name the back link memory holds, in the tree the
\* view's index is built from: the notes the user can have navigated from
Origins(fs, directory, note) == {p \in NoteFiles(fs, directory) : p.name = note}

\* a link token resolves to file_ in the index notes
ResolvesTo(notes, link, file_) ==
    /\ LowerName(link.name) \in DOMAIN notes
    /\ file_ \in FilesUnder(notes, LowerName(link.name))

\* C22: the link paste-back-link inserts resolves, in the index of the view's
\* notes, to the note the user navigated from; and so does the back link a
\* created note is written with.
C22_BackLinkResolves ==
    /\ out.op = "paste_back_link" =>
          LET directory == notes_dir_for_view(files, out.view.dir)
          IN  \A p \in Origins(files, directory, out.note) :
                 ResolvesTo(Walk(files, directory), out.link, p)
    /\ (out.op = "open_link" /\ out.created = "written") =>
          ResolvesTo(Walk(files, notes_dir_for_view(files, out.view.dir)),
                     files[out.path].links[1], out.view)

=============================================================================
